---- MODULE Spec2Model ----
(***************************************************************************)
(* Page-replacement simulation of src/virtual.c: the page table, the free  *)
(* frame pool, process_page_access_{fifo,lru,lfu} and                       *)
(* count_page_faults_{fifo,lru,lfu}.                                        *)
(***************************************************************************)
EXTENDS Integers, Sequences, FiniteSets, TLC

\* ------------------------------------------------------------------ bounds
\* table_cnt: the number of page-table entries the caller passes.
NumPages == 3
\* Largest initial frame_cnt (the capacity of a run is drawn from 0..MaxFrames).
MaxFrames == 2
\* The caller of process_page_access_* passes current_timestamp in 1..MaxTs.
MaxTs == 2
\* Number of process_page_access_* calls in one behaviour.
MaxCalls == 3
\* Largest reference_cnt of a count_page_faults_* call.
MaxRefs == 5
\* length of the reference strings of the whole-function runs
MaxRunRefs == 3

\* ------------------------------------------------------------------ constants
INT_MAX == 2147483647

Pages == 0 .. (NumPages - 1)
Timestamps == 1 .. MaxTs
Policies == {"fifo", "lru", "lfu"}

\* ------------------------------------------------------------------ struct PTE
\* An entry that holds no page: what the eviction code writes, and what an
\* empty page table holds.
EvictedPTE ==
  [is_valid |-> 0, frame_number |-> -1, arrival_timestamp |-> -1,
   last_access_timestamp |-> -1, reference_count |-> -1]

EmptyTableOf(table_cnt) == [p \in 0 .. (table_cnt - 1) |-> EvictedPTE]

EmptyTable == EmptyTableOf(NumPages)

\* The free frames of a pool of n frames: frames 0 .. n-1, pairwise distinct.
InitialPool(n) == [k \in 1 .. n |-> k - 1]

\* ------------------------------------------------------------------ helpers
\* HitEntry with the hit taken for a load: arrival_timestamp is set too.
HitEntry_rearrive(e, current_timestamp) ==
  [e EXCEPT !.arrival_timestamp = current_timestamp,
            !.last_access_timestamp = current_timestamp,
            !.reference_count = e.reference_count + 1]

\* HitEntry without the update of last_access_timestamp.
HitEntry_stale(e, current_timestamp) ==
  [e EXCEPT !.reference_count = e.reference_count + 1]

\* "Page is in memory, update access info".
HitEntry(e, current_timestamp) ==
  [e EXCEPT !.last_access_timestamp = current_timestamp,
            !.reference_count = e.reference_count + 1]

\* RemoveFrame without the removal: the frame handed out stays in the pool.
RemoveFrame_keep(pool) == pool

\* "Remove frame from pool": shift left by one, frame_cnt--.
RemoveFrame(pool) == Tail(pool)

\* LoadEntry without the assignment of last_access_timestamp.
LoadEntry_no_access(frame, current_timestamp) ==
  [is_valid |-> 1, frame_number |-> frame,
   arrival_timestamp |-> current_timestamp,
   last_access_timestamp |-> -1,
   reference_count |-> 1]

\* "Update page table entry" / "Load new page".
LoadEntry(frame, current_timestamp) ==
  [is_valid |-> 1, frame_number |-> frame,
   arrival_timestamp |-> current_timestamp,
   last_access_timestamp |-> current_timestamp,
   reference_count |-> 1]

\* ------------------------------------------------------------------ victim scans
\* fifo_scan comparing last_access_timestamp instead of arrival_timestamp.
RECURSIVE fifo_scan_by_access(_, _, _, _, _)
fifo_scan_by_access(pt, table_cnt, i, oldest_timestamp, page_to_replace) ==
  IF i >= table_cnt THEN page_to_replace
  ELSE IF pt[i].is_valid # 0 /\ pt[i].last_access_timestamp < oldest_timestamp
       THEN fifo_scan_by_access(pt, table_cnt, i + 1,
                                pt[i].last_access_timestamp, i)
       ELSE fifo_scan_by_access(pt, table_cnt, i + 1, oldest_timestamp,
                                page_to_replace)

\* fifo_scan without the timestamp comparison: the last valid entry is kept.
RECURSIVE fifo_scan_last_valid(_, _, _, _, _)
fifo_scan_last_valid(pt, table_cnt, i, oldest_timestamp, page_to_replace) ==
  IF i >= table_cnt THEN page_to_replace
  ELSE IF pt[i].is_valid # 0
       THEN fifo_scan_last_valid(pt, table_cnt, i + 1,
                                 pt[i].arrival_timestamp, i)
       ELSE fifo_scan_last_valid(pt, table_cnt, i + 1, oldest_timestamp,
                                 page_to_replace)

\* FIFO: the scan for the smallest arrival_timestamp, from entry i on.
RECURSIVE fifo_scan(_, _, _, _, _)
fifo_scan(pt, table_cnt, i, oldest_timestamp, page_to_replace) ==
  IF i >= table_cnt THEN page_to_replace
  ELSE IF pt[i].is_valid # 0 /\ pt[i].arrival_timestamp < oldest_timestamp
       THEN fifo_scan(pt, table_cnt, i + 1, pt[i].arrival_timestamp, i)
       ELSE fifo_scan(pt, table_cnt, i + 1, oldest_timestamp, page_to_replace)

\* lru_scan comparing arrival_timestamp instead of last_access_timestamp.
RECURSIVE lru_scan_by_arrival(_, _, _, _, _)
lru_scan_by_arrival(pt, table_cnt, i, oldest_access, page_to_replace) ==
  IF i >= table_cnt THEN page_to_replace
  ELSE IF pt[i].is_valid # 0 /\ pt[i].arrival_timestamp < oldest_access
       THEN lru_scan_by_arrival(pt, table_cnt, i + 1,
                                pt[i].arrival_timestamp, i)
       ELSE lru_scan_by_arrival(pt, table_cnt, i + 1, oldest_access,
                                page_to_replace)

\* lru_scan without the timestamp comparison: the last valid entry is kept.
RECURSIVE lru_scan_last_valid(_, _, _, _, _)
lru_scan_last_valid(pt, table_cnt, i, oldest_access, page_to_replace) ==
  IF i >= table_cnt THEN page_to_replace
  ELSE IF pt[i].is_valid # 0
       THEN lru_scan_last_valid(pt, table_cnt, i + 1,
                                pt[i].last_access_timestamp, i)
       ELSE lru_scan_last_valid(pt, table_cnt, i + 1, oldest_access,
                                page_to_replace)

\* LRU: the scan for the smallest last_access_timestamp, from entry i on.
RECURSIVE lru_scan(_, _, _, _, _)
lru_scan(pt, table_cnt, i, oldest_access, page_to_replace) ==
  IF i >= table_cnt THEN page_to_replace
  ELSE IF pt[i].is_valid # 0 /\ pt[i].last_access_timestamp < oldest_access
       THEN lru_scan(pt, table_cnt, i + 1, pt[i].last_access_timestamp, i)
       ELSE lru_scan(pt, table_cnt, i + 1, oldest_access, page_to_replace)

\* lfu_scan without the tie-break on arrival_timestamp.
RECURSIVE lfu_scan_no_tiebreak(_, _, _, _, _, _)
lfu_scan_no_tiebreak(pt, table_cnt, i, min_ref_count, oldest_timestamp, page_to_replace) ==
  IF i >= table_cnt THEN page_to_replace
  ELSE IF pt[i].is_valid # 0 /\ pt[i].reference_count < min_ref_count
       THEN lfu_scan_no_tiebreak(pt, table_cnt, i + 1, pt[i].reference_count,
                                 pt[i].arrival_timestamp, i)
       ELSE lfu_scan_no_tiebreak(pt, table_cnt, i + 1, min_ref_count,
                                 oldest_timestamp, page_to_replace)

\* lfu_scan without the test of is_valid: evicted entries are compared too.
RECURSIVE lfu_scan_any_entry(_, _, _, _, _, _)
lfu_scan_any_entry(pt, table_cnt, i, min_ref_count, oldest_timestamp, page_to_replace) ==
  IF i >= table_cnt THEN page_to_replace
  ELSE IF pt[i].reference_count < min_ref_count
       THEN lfu_scan_any_entry(pt, table_cnt, i + 1, pt[i].reference_count,
                               pt[i].arrival_timestamp, i)
       ELSE IF pt[i].reference_count = min_ref_count
               /\ pt[i].arrival_timestamp < oldest_timestamp
            THEN lfu_scan_any_entry(pt, table_cnt, i + 1, min_ref_count,
                                    pt[i].arrival_timestamp, i)
            ELSE lfu_scan_any_entry(pt, table_cnt, i + 1, min_ref_count,
                                    oldest_timestamp, page_to_replace)

\* LFU: the scan for the smallest reference_count, ties by the smallest
\* arrival_timestamp, from entry i on.
RECURSIVE lfu_scan(_, _, _, _, _, _)
lfu_scan(pt, table_cnt, i, min_ref_count, oldest_timestamp, page_to_replace) ==
  IF i >= table_cnt THEN page_to_replace
  ELSE IF pt[i].is_valid # 0
       THEN IF pt[i].reference_count < min_ref_count
            THEN lfu_scan(pt, table_cnt, i + 1, pt[i].reference_count,
                          pt[i].arrival_timestamp, i)
            ELSE IF pt[i].reference_count = min_ref_count
                    /\ pt[i].arrival_timestamp < oldest_timestamp
                 THEN lfu_scan(pt, table_cnt, i + 1, min_ref_count,
                               pt[i].arrival_timestamp, i)
                 ELSE lfu_scan(pt, table_cnt, i + 1, min_ref_count,
                               oldest_timestamp, page_to_replace)
       ELSE lfu_scan(pt, table_cnt, i + 1, min_ref_count, oldest_timestamp,
                     page_to_replace)

\* ------------------------------------------------------------------ the functions
\* Replace without the eviction: the victim's entry stays valid.
Replace_keep_victim(pt, page_to_replace, page_number, current_timestamp) ==
  [pt EXCEPT ![page_number] =
     LoadEntry(pt[page_to_replace].frame_number, current_timestamp)]

\* Replace reading the victim's frame_number after the eviction reset it.
Replace_late_frame(pt, page_to_replace, page_number, current_timestamp) ==
  LET evicted == [pt EXCEPT ![page_to_replace] = EvictedPTE]
      frame == evicted[page_to_replace].frame_number
  IN  [evicted EXCEPT ![page_number] = LoadEntry(frame, current_timestamp)]

\* Replace without the load: the victim is evicted and its frame is dropped.
Replace_no_load(pt, page_to_replace, page_number, current_timestamp) ==
  [pt EXCEPT ![page_to_replace] = EvictedPTE]

\* "Evict the old page", then "Load new page" into the frame it held.
Replace(pt, page_to_replace, page_number, current_timestamp) ==
  LET frame == pt[page_to_replace].frame_number
      evicted == [pt EXCEPT ![page_to_replace] = EvictedPTE]
  IN  [evicted EXCEPT ![page_number] = LoadEntry(frame, current_timestamp)]

\* CountFault without the increment.
CountFault_skip(n) == n

\* "faults++" of count_page_faults_*.
CountFault(n) == n + 1

\* process_page_access_fifo: the page table and the pool after the call and
\* the value returned; kind and victim name the path taken.
process_page_access_fifo(pt, table_cnt, page_number, pool, current_timestamp) ==
  IF pt[page_number].is_valid # 0
  THEN [page_table |-> [pt EXCEPT ![page_number] =
                          HitEntry(pt[page_number], current_timestamp)],
        frame_pool |-> pool,
        ret |-> pt[page_number].frame_number,
        kind |-> "hit", victim |-> -1]
  ELSE IF Len(pool) > 0
  THEN [page_table |-> [pt EXCEPT ![page_number] =
                          LoadEntry(pool[1], current_timestamp)],
        frame_pool |-> RemoveFrame(pool),
        ret |-> pool[1],
        kind |-> "fill", victim |-> -1]
  ELSE LET page_to_replace == fifo_scan(pt, table_cnt, 0, INT_MAX, -1) IN
       IF page_to_replace # -1
       THEN [page_table |-> Replace(pt, page_to_replace, page_number,
                                    current_timestamp),
             frame_pool |-> pool,
             ret |-> pt[page_to_replace].frame_number,
             kind |-> "evict", victim |-> page_to_replace]
       ELSE [page_table |-> pt, frame_pool |-> pool, ret |-> -1,
             kind |-> "none", victim |-> -1]

\* One pass of the loop of count_page_faults_fifo over the local copies:
\* st is [page_table, frame_pool, faults, current_timestamp] (the local_* of
\* the code); kind and victim name the path taken.
count_iteration_fifo(st, table_cnt, page_number) ==
  LET pt == st.page_table
      pool == st.frame_pool
      ts == st.current_timestamp
  IN
  IF ~(pt[page_number].is_valid # 0)
  THEN IF Len(pool) > 0
       THEN [page_table |-> [pt EXCEPT ![page_number] = LoadEntry(pool[1], ts)],
             frame_pool |-> RemoveFrame(pool),
             faults |-> CountFault(st.faults),
             current_timestamp |-> ts + 1,
             kind |-> "fill", victim |-> -1]
       ELSE LET page_to_replace == fifo_scan(pt, table_cnt, 0, INT_MAX, -1) IN
            IF page_to_replace # -1
            THEN [page_table |-> Replace(pt, page_to_replace, page_number, ts),
                  frame_pool |-> pool,
                  faults |-> CountFault(st.faults),
                  current_timestamp |-> ts + 1,
                  kind |-> "evict", victim |-> page_to_replace]
            ELSE [page_table |-> pt, frame_pool |-> pool,
                  faults |-> CountFault(st.faults),
                  current_timestamp |-> ts + 1,
                  kind |-> "none", victim |-> -1]
  ELSE [page_table |-> [pt EXCEPT ![page_number] = HitEntry(pt[page_number], ts)],
        frame_pool |-> pool,
        faults |-> st.faults,
        current_timestamp |-> ts + 1,
        kind |-> "hit", victim |-> -1]

\* process_page_access_lru: the page table and the pool after the call and
\* the value returned; kind and victim name the path taken.
process_page_access_lru(pt, table_cnt, page_number, pool, current_timestamp) ==
  IF pt[page_number].is_valid # 0
  THEN [page_table |-> [pt EXCEPT ![page_number] =
                          HitEntry(pt[page_number], current_timestamp)],
        frame_pool |-> pool,
        ret |-> pt[page_number].frame_number,
        kind |-> "hit", victim |-> -1]
  ELSE IF Len(pool) > 0
  THEN [page_table |-> [pt EXCEPT ![page_number] =
                          LoadEntry(pool[1], current_timestamp)],
        frame_pool |-> RemoveFrame(pool),
        ret |-> pool[1],
        kind |-> "fill", victim |-> -1]
  ELSE LET page_to_replace == lru_scan(pt, table_cnt, 0, INT_MAX, -1) IN
       IF page_to_replace # -1
       THEN [page_table |-> Replace(pt, page_to_replace, page_number,
                                    current_timestamp),
             frame_pool |-> pool,
             ret |-> pt[page_to_replace].frame_number,
             kind |-> "evict", victim |-> page_to_replace]
       ELSE [page_table |-> pt, frame_pool |-> pool, ret |-> -1,
             kind |-> "none", victim |-> -1]

\* One pass of the loop of count_page_faults_lru over the local copies:
\* st is [page_table, frame_pool, faults, current_timestamp] (the local_* of
\* the code); kind and victim name the path taken.
count_iteration_lru(st, table_cnt, page_number) ==
  LET pt == st.page_table
      pool == st.frame_pool
      ts == st.current_timestamp
  IN
  IF ~(pt[page_number].is_valid # 0)
  THEN IF Len(pool) > 0
       THEN [page_table |-> [pt EXCEPT ![page_number] = LoadEntry(pool[1], ts)],
             frame_pool |-> RemoveFrame(pool),
             faults |-> CountFault(st.faults),
             current_timestamp |-> ts + 1,
             kind |-> "fill", victim |-> -1]
       ELSE LET page_to_replace == lru_scan(pt, table_cnt, 0, INT_MAX, -1) IN
            IF page_to_replace # -1
            THEN [page_table |-> Replace(pt, page_to_replace, page_number, ts),
                  frame_pool |-> pool,
                  faults |-> CountFault(st.faults),
                  current_timestamp |-> ts + 1,
                  kind |-> "evict", victim |-> page_to_replace]
            ELSE [page_table |-> pt, frame_pool |-> pool,
                  faults |-> CountFault(st.faults),
                  current_timestamp |-> ts + 1,
                  kind |-> "none", victim |-> -1]
  ELSE [page_table |-> [pt EXCEPT ![page_number] = HitEntry(pt[page_number], ts)],
        frame_pool |-> pool,
        faults |-> st.faults,
        current_timestamp |-> ts + 1,
        kind |-> "hit", victim |-> -1]

\* process_page_access_lfu: the page table and the pool after the call and
\* the value returned; kind and victim name the path taken.
process_page_access_lfu(pt, table_cnt, page_number, pool, current_timestamp) ==
  IF pt[page_number].is_valid # 0
  THEN [page_table |-> [pt EXCEPT ![page_number] =
                          HitEntry(pt[page_number], current_timestamp)],
        frame_pool |-> pool,
        ret |-> pt[page_number].frame_number,
        kind |-> "hit", victim |-> -1]
  ELSE IF Len(pool) > 0
  THEN [page_table |-> [pt EXCEPT ![page_number] =
                          LoadEntry(pool[1], current_timestamp)],
        frame_pool |-> RemoveFrame(pool),
        ret |-> pool[1],
        kind |-> "fill", victim |-> -1]
  ELSE LET page_to_replace == lfu_scan(pt, table_cnt, 0, INT_MAX, INT_MAX, -1) IN
       IF page_to_replace # -1
       THEN [page_table |-> Replace(pt, page_to_replace, page_number,
                                    current_timestamp),
             frame_pool |-> pool,
             ret |-> pt[page_to_replace].frame_number,
             kind |-> "evict", victim |-> page_to_replace]
       ELSE [page_table |-> pt, frame_pool |-> pool, ret |-> -1,
             kind |-> "none", victim |-> -1]

\* One pass of the loop of count_page_faults_lfu over the local copies:
\* st is [page_table, frame_pool, faults, current_timestamp] (the local_* of
\* the code); kind and victim name the path taken.
count_iteration_lfu(st, table_cnt, page_number) ==
  LET pt == st.page_table
      pool == st.frame_pool
      ts == st.current_timestamp
  IN
  IF ~(pt[page_number].is_valid # 0)
  THEN IF Len(pool) > 0
       THEN [page_table |-> [pt EXCEPT ![page_number] = LoadEntry(pool[1], ts)],
             frame_pool |-> RemoveFrame(pool),
             faults |-> CountFault(st.faults),
             current_timestamp |-> ts + 1,
             kind |-> "fill", victim |-> -1]
       ELSE LET page_to_replace == lfu_scan(pt, table_cnt, 0, INT_MAX, INT_MAX, -1) IN
            IF page_to_replace # -1
            THEN [page_table |-> Replace(pt, page_to_replace, page_number, ts),
                  frame_pool |-> pool,
                  faults |-> CountFault(st.faults),
                  current_timestamp |-> ts + 1,
                  kind |-> "evict", victim |-> page_to_replace]
            ELSE [page_table |-> pt, frame_pool |-> pool,
                  faults |-> CountFault(st.faults),
                  current_timestamp |-> ts + 1,
                  kind |-> "none", victim |-> -1]
  ELSE [page_table |-> [pt EXCEPT ![page_number] = HitEntry(pt[page_number], ts)],
        frame_pool |-> pool,
        faults |-> st.faults,
        current_timestamp |-> ts + 1,
        kind |-> "hit", victim |-> -1]

process_page_access(policy, pt, table_cnt, page_number, pool, current_timestamp) ==
  CASE policy = "fifo" ->
         process_page_access_fifo(pt, table_cnt, page_number, pool, current_timestamp)
    [] policy = "lru" ->
         process_page_access_lru(pt, table_cnt, page_number, pool, current_timestamp)
    [] policy = "lfu" ->
         process_page_access_lfu(pt, table_cnt, page_number, pool, current_timestamp)

count_iteration(policy, st, table_cnt, page_number) ==
  CASE policy = "fifo" -> count_iteration_fifo(st, table_cnt, page_number)
    [] policy = "lru"  -> count_iteration_lru(st, table_cnt, page_number)
    [] policy = "lfu"  -> count_iteration_lfu(st, table_cnt, page_number)

\* count_locals with the clock starting at 0.
count_locals_clock_zero(pt, pool) ==
  [page_table |-> pt, frame_pool |-> pool, faults |-> 0,
   current_timestamp |-> 0, kind |-> "none", victim |-> -1]

\* The locals of count_page_faults_* before the loop: faults = 0,
\* current_timestamp = 1 and the copies of the caller's table and pool.
count_locals(pt, pool) ==
  [page_table |-> pt, frame_pool |-> pool, faults |-> 0,
   current_timestamp |-> 1, kind |-> "none", victim |-> -1]

\* The locals of count_page_faults_<policy> after the first k passes of its
\* loop over reference_string.
RECURSIVE count_loop(_, _, _, _, _, _)
count_loop(policy, pt, table_cnt, reference_string, k, pool) ==
  IF k = 0 THEN count_locals(pt, pool)
  ELSE count_iteration(policy,
                       count_loop(policy, pt, table_cnt, reference_string,
                                  k - 1, pool),
                       table_cnt, reference_string[k])

\* count_page_faults working on the caller's arrays instead of its copies.
count_page_faults_in_place(policy, pt, table_cnt, reference_string, reference_cnt, pool) ==
  LET final == count_loop(policy, pt, table_cnt, reference_string,
                          reference_cnt, pool)
  IN  [ret |-> final.faults,
       page_table |-> final.page_table, frame_pool |-> final.frame_pool,
       local_page_table |-> final.page_table,
       local_frame_pool |-> final.frame_pool]

\* A whole call of count_page_faults_<policy>: the value returned, the
\* caller's page_table and frame_pool after the call (the function writes to
\* its copies only), and the copies as they are at "return faults".
count_page_faults(policy, pt, table_cnt, reference_string, reference_cnt, pool) ==
  LET final == count_loop(policy, pt, table_cnt, reference_string,
                          reference_cnt, pool)
  IN  [ret |-> final.faults,
       page_table |-> pt, frame_pool |-> pool,
       local_page_table |-> final.page_table,
       local_frame_pool |-> final.frame_pool]

\* The path taken by each pass of the loop of count_page_faults_<policy>:
\* "hit", "fill" (free frame), "evict" or "none" (fault, nothing loaded).
count_outcomes(policy, pt, table_cnt, reference_string, reference_cnt, pool) ==
  [k \in 1 .. reference_cnt |->
     count_loop(policy, pt, table_cnt, reference_string, k, pool).kind]

\* A caller replaying the first k references through
\* process_page_access_<policy> with current_timestamp = 1, 2, ..., k:
\* its table and pool after the k calls, and how many of the calls found the
\* page not resident.
RECURSIVE replay(_, _, _, _, _, _)
replay(policy, pt, table_cnt, reference_string, k, pool) ==
  IF k = 0 THEN [page_table |-> pt, frame_pool |-> pool, nonresident |-> 0]
  ELSE LET before == replay(policy, pt, table_cnt, reference_string, k - 1, pool)
           page_number == reference_string[k]
           r == process_page_access(policy, before.page_table, table_cnt,
                                    page_number, before.frame_pool, k)
       IN  [page_table |-> r.page_table, frame_pool |-> r.frame_pool,
            nonresident |-> IF before.page_table[page_number].is_valid = 0
                            THEN before.nonresident + 1
                            ELSE before.nonresident]

\* ------------------------------------------------------------------ state
VARIABLES
  page_table,         \* the caller's page table
  frame_pool,         \* the caller's free frames, frame_pool[0 .. frame_cnt-1]
  capacity,           \* the frame_cnt the run started with
  calls,              \* process_page_access_* calls made so far
  running,            \* the count_page_faults_* being executed, or "none"
  local_page_table,   \* its copy of the page table
  local_frame_pool,   \* its copy of the pool (local_frame_cnt is its length)
  faults,             \* its fault counter
  current_timestamp,  \* its clock
  i,                  \* its loop index
  misses,             \* references found not resident when accessed
  last,               \* the last access processed: inputs, path and pre-state;
                      \* in_order: no process_page_access_* call so far
                      \* passed a current_timestamp below the call before it
  reference_string,   \* the reference string of the whole-function runs
  counted,            \* per policy: the latest whole count_page_faults_* call
  replayed            \* the latest replay through process_page_access_*

vars == <<page_table, frame_pool, capacity, calls, running, local_page_table,
          local_frame_pool, faults, current_timestamp, i, misses, last,
          reference_string, counted, replayed>>

frame_cnt == Len(frame_pool)
local_frame_cnt == Len(local_frame_pool)

NoAccess ==
  [fn |-> "none", policy |-> "none", kind |-> "none", page |-> -1, ts |-> 0,
   victim |-> -1, ret |-> -1, pre_table |-> EmptyTable, pre_pool |-> <<>>,
   reference_cnt |-> 0, misses |-> 0, in_order |-> TRUE]

locals == <<running, local_page_table, local_frame_pool, faults,
           current_timestamp, i, misses>>

\* No whole-function run made yet.
NoRun ==
  [done |-> FALSE, again |-> FALSE, policy |-> "none", first |-> -1,
   ret |-> -1, pre_table |-> <<>>, pre_pool |-> <<>>,
   local_page_table |-> <<>>, local_frame_pool |-> <<>>, outcomes |-> <<>>]

NoRuns ==
  /\ reference_string = <<>>
  /\ counted = [p \in Policies |-> NoRun]
  /\ replayed = NoRun

runs == <<reference_string, counted, replayed>>

Init ==
  /\ capacity \in 0 .. MaxFrames
  /\ page_table = EmptyTable
  /\ frame_pool = InitialPool(capacity)
  /\ calls = 0
  /\ running = "none"
  /\ local_page_table = EmptyTable
  /\ local_frame_pool = <<>>
  /\ faults = 0
  /\ current_timestamp = 0
  /\ i = 0
  /\ misses = 0
  /\ last = NoAccess
  /\ NoRuns

\* ------------------------------------------------------------------ actions
\* One call of process_page_access_<policy> with table_cnt = NumPages, the
\* page_number drawn from page_numbers and current_timestamp from timestamps.
AccessWith(policy, page_numbers, timestamps) ==
  /\ running = "none"
  /\ calls < MaxCalls
  /\ \E page_number \in page_numbers, ts \in timestamps :
       LET r == process_page_access(policy, page_table, NumPages, page_number,
                                    frame_pool, ts)
       IN  /\ page_table' = r.page_table
           /\ frame_pool' = r.frame_pool
           /\ last' = [fn |-> "access", policy |-> policy, kind |-> r.kind,
                       page |-> page_number, ts |-> ts, victim |-> r.victim,
                       ret |-> r.ret, pre_table |-> page_table,
                       pre_pool |-> frame_pool, reference_cnt |-> 0,
                       misses |-> 0,
                       in_order |-> last.in_order /\ last.ts <= ts]
  /\ calls' = calls + 1
  /\ UNCHANGED <<capacity, locals, runs>>

\* The call with a page of the table and a timestamp of 1 .. MaxTs.
Access(policy) == AccessWith(policy, Pages, Timestamps)

ProcessPageAccessFifo == Access("fifo")
ProcessPageAccessLru == Access("lru")
ProcessPageAccessLfu == Access("lfu")

\* The call, on the table and the pool as constructed: "Create a copy of frame
\* pool and page table for simulation".
CountCall(policy) ==
  /\ running = "none"
  /\ calls = 0
  /\ running' = policy
  /\ local_page_table' = page_table
  /\ local_frame_pool' = frame_pool
  /\ faults' = 0
  /\ current_timestamp' = 1
  /\ i' = 0
  /\ misses' = 0
  /\ last' = [NoAccess EXCEPT !.fn = "call", !.policy = policy]
  /\ UNCHANGED <<page_table, frame_pool, capacity, calls, runs>>

\* One pass of "for (int i = 0; i < reference_cnt; i++)".
CountIteration(policy) ==
  /\ running = policy
  /\ i < MaxRefs
  /\ \E page_number \in Pages :
       LET st == [page_table |-> local_page_table,
                  frame_pool |-> local_frame_pool,
                  faults |-> faults,
                  current_timestamp |-> current_timestamp]
           r == count_iteration(policy, st, NumPages, page_number)
       IN  /\ local_page_table' = r.page_table
           /\ local_frame_pool' = r.frame_pool
           /\ faults' = r.faults
           /\ current_timestamp' = r.current_timestamp
           /\ misses' = IF local_page_table[page_number].is_valid = 0
                        THEN misses + 1 ELSE misses
           /\ last' = [fn |-> "count", policy |-> policy, kind |-> r.kind,
                       page |-> page_number, ts |-> current_timestamp,
                       victim |-> r.victim, ret |-> -1,
                       pre_table |-> local_page_table,
                       pre_pool |-> local_frame_pool,
                       reference_cnt |-> 0, misses |-> 0,
                       in_order |-> TRUE]
  /\ i' = i + 1
  /\ UNCHANGED <<page_table, frame_pool, capacity, calls, running, runs>>

\* "return faults": i = reference_cnt.
CountReturn(policy) ==
  /\ running = policy
  /\ running' = "none"
  /\ last' = [NoAccess EXCEPT !.fn = "return", !.policy = policy,
                              !.ret = faults, !.reference_cnt = i,
                              !.misses = misses]
  /\ local_page_table' = EmptyTable
  /\ local_frame_pool' = <<>>
  /\ faults' = 0
  /\ current_timestamp' = 0
  /\ i' = 0
  /\ misses' = 0
  /\ UNCHANGED <<page_table, frame_pool, capacity, calls, runs>>

CountPageFaultsFifo ==
  CountCall("fifo") \/ CountIteration("fifo") \/ CountReturn("fifo")
CountPageFaultsLru ==
  CountCall("lru") \/ CountIteration("lru") \/ CountReturn("lru")
CountPageFaultsLfu ==
  CountCall("lfu") \/ CountIteration("lfu") \/ CountReturn("lfu")

Next ==
  \/ ProcessPageAccessFifo
  \/ ProcessPageAccessLru
  \/ ProcessPageAccessLfu
  \/ CountPageFaultsFifo
  \/ CountPageFaultsLru
  \/ CountPageFaultsLfu

Spec == Init /\ [][Next]_vars

\* ------------------------------------------------------------------ extreme timestamps
\* The calls of process_page_access_* when the caller may also pass INT_MAX as
\* current_timestamp.
AccessAtLimit(policy) == AccessWith(policy, Pages, Timestamps \cup {INT_MAX})

NextLimits ==
  \/ AccessAtLimit("fifo")
  \/ AccessAtLimit("lru")
  \/ AccessAtLimit("lfu")

SpecLimits == Init /\ [][NextLimits]_vars

\* ------------------------------------------------------------------ page numbers out of range
\* page_table[TABLEMAX] has room beyond table_cnt: one more entry, holding no
\* page, follows the table_cnt entries of the table.
InitRange ==
  /\ capacity \in 0 .. MaxFrames
  /\ page_table = EmptyTableOf(NumPages + 1)
  /\ frame_pool = InitialPool(capacity)
  /\ calls = 0
  /\ running = "none"
  /\ local_page_table = EmptyTable
  /\ local_frame_pool = <<>>
  /\ faults = 0
  /\ current_timestamp = 0
  /\ i = 0
  /\ misses = 0
  /\ last = NoAccess
  /\ NoRuns

\* The calls of process_page_access_* when the caller may also pass
\* page_number = table_cnt.
AccessAnyPage(policy) == AccessWith(policy, 0 .. NumPages, Timestamps)

NextRange ==
  \/ AccessAnyPage("fifo")
  \/ AccessAnyPage("lru")
  \/ AccessAnyPage("lfu")

SpecRange == InitRange /\ [][NextRange]_vars

\* ------------------------------------------------------------------ whole runs
\* The reference strings of at most n pages of the table.
RefStrings(n) == UNION {[1 .. m -> Pages] : m \in 0 .. n}

\* The caller's table and pool before a run: as constructed with c frames, or
\* after process_page_access_fifo has loaded page 0 at time MaxTs.
RunStarts(c) ==
  {[page_table |-> EmptyTable, frame_pool |-> InitialPool(c)]} \cup
  {LET r == process_page_access("fifo", EmptyTable, NumPages, 0,
                                InitialPool(c), MaxTs)
   IN  [page_table |-> r.page_table, frame_pool |-> r.frame_pool]}

\* Scenarios A and B: 3 frames, pages 1 .. 5.   Scenario D: 1 frame, page 7.
ScenarioRefs == <<1, 2, 3, 4, 1, 2, 5, 1, 2, 3>>
ScenarioD_Refs == <<7, 7, 7>>

RunInputs ==
  {[page_table |-> st.page_table, frame_pool |-> st.frame_pool,
    reference_string |-> refs] :
     st \in UNION {RunStarts(c) : c \in 0 .. MaxFrames},
     refs \in RefStrings(MaxRunRefs)}
  \cup {[page_table |-> EmptyTableOf(6), frame_pool |-> InitialPool(3),
         reference_string |-> ScenarioRefs],
        [page_table |-> EmptyTableOf(8), frame_pool |-> InitialPool(1),
         reference_string |-> ScenarioD_Refs]}

InitRuns ==
  /\ \E in \in RunInputs :
       /\ page_table = in.page_table
       /\ frame_pool = in.frame_pool
       /\ reference_string = in.reference_string
  /\ capacity = Cardinality({p \in DOMAIN page_table : page_table[p].is_valid # 0})
                  + Len(frame_pool)
  /\ calls = 0
  /\ running = "none"
  /\ local_page_table = EmptyTable
  /\ local_frame_pool = <<>>
  /\ faults = 0
  /\ current_timestamp = 0
  /\ i = 0
  /\ misses = 0
  /\ last = NoAccess
  /\ counted = [p \in Policies |-> NoRun]
  /\ replayed = NoRun

\* The table_cnt the caller passes: the number of entries of its table.
table_cnt == Cardinality(DOMAIN page_table)
reference_cnt == Len(reference_string)

\* A whole call of count_page_faults_<policy> on the caller's table and pool.
CountRun(policy) ==
  /\ running = "none"
  /\ LET r == count_page_faults(policy, page_table, table_cnt,
                                reference_string, reference_cnt, frame_pool)
     IN  /\ page_table' = r.page_table
         /\ frame_pool' = r.frame_pool
         /\ counted' =
              [counted EXCEPT ![policy] =
                 [done |-> TRUE, again |-> @.done, policy |-> policy,
                  first |-> IF @.done THEN @.first ELSE r.ret,
                  ret |-> r.ret,
                  pre_table |-> page_table, pre_pool |-> frame_pool,
                  local_page_table |-> r.local_page_table,
                  local_frame_pool |-> r.local_frame_pool,
                  outcomes |-> count_outcomes(policy, page_table, table_cnt,
                                              reference_string, reference_cnt,
                                              frame_pool)]]
  /\ UNCHANGED <<capacity, calls, locals, last, reference_string, replayed>>

\* The caller replays the reference string through
\* process_page_access_<policy> on a copy of its table and pool.
ReplayRun(policy) ==
  /\ running = "none"
  /\ LET r == replay(policy, page_table, table_cnt, reference_string,
                     reference_cnt, frame_pool)
     IN  replayed' = [NoRun EXCEPT !.done = TRUE, !.policy = policy,
                                   !.ret = r.nonresident,
                                   !.first = r.nonresident,
                                   !.pre_table = page_table,
                                   !.pre_pool = frame_pool,
                                   !.local_page_table = r.page_table,
                                   !.local_frame_pool = r.frame_pool]
  /\ UNCHANGED <<page_table, frame_pool, capacity, calls, locals, last,
                 reference_string, counted>>

\* The three count_page_faults_* called on the same inputs, in any order and
\* any number of times.
NextRuns ==
  \/ CountRun("fifo")
  \/ CountRun("lru")
  \/ CountRun("lfu")

SpecRuns == InitRuns /\ [][NextRuns]_vars

\* The replays of the same inputs under each policy.
NextReplay ==
  \/ ReplayRun("fifo")
  \/ ReplayRun("lru")
  \/ ReplayRun("lfu")

SpecReplay == InitRuns /\ [][NextReplay]_vars

\* ------------------------------------------------------------------ observation
\* The pages with a valid entry.
Resident(pt) == {p \in DOMAIN pt : pt[p].is_valid # 0}

\* The last step processed one page access (a process_page_access_* call or
\* one pass of a count_page_faults_* loop).
Accessed == last.fn \in {"access", "count"}

\* The table and the pool that access worked on, as it left them.
AccessTable == IF last.fn = "count" THEN local_page_table ELSE page_table
AccessPool == IF last.fn = "count" THEN local_frame_pool ELSE frame_pool

Evicted(policy) == Accessed /\ last.kind = "evict" /\ last.policy = policy

\* ------------------------------------------------------------------ claims

\* C1: after any sequence of process_page_access_* calls from an empty table
\* and a pool of distinct frames, no two valid entries have the same
\* frame_number and no frame of the free pool is the frame_number of a valid
\* entry.
C1_DistinctFrames ==
  /\ \A p, q \in Resident(page_table) :
       p # q => page_table[p].frame_number # page_table[q].frame_number
  /\ \A k \in 1 .. frame_cnt : \A p \in Resident(page_table) :
       page_table[p].frame_number # frame_pool[k]

C1_Witness ==
  /\ last.fn = "access"
  /\ last.kind = "evict"
  /\ Cardinality(Resident(page_table)) >= 2

\* C2: the number of valid entries never exceeds the capacity the run started
\* with, in the caller's table after process_page_access_* and in the local
\* table inside count_page_faults_*.
C2_ResidentWithinCapacity ==
  /\ Cardinality(Resident(page_table)) <= capacity
  /\ running # "none" => Cardinality(Resident(local_page_table)) <= capacity

C2_Witness ==
  /\ running # "none"
  /\ last.kind = "evict"
  /\ capacity >= 2
  /\ Cardinality(Resident(local_page_table)) = capacity

\* C3: FIFO evicts a page that was resident and whose arrival_timestamp is at
\* most that of every page resident before the eviction.
C3_FifoVictimOldestArrival ==
  Evicted("fifo") =>
    /\ last.victim \in Resident(last.pre_table)
    /\ last.victim \notin Resident(AccessTable)
    /\ \A q \in Resident(last.pre_table) :
         last.pre_table[last.victim].arrival_timestamp
           <= last.pre_table[q].arrival_timestamp

C3_Witness ==
  /\ Evicted("fifo")
  /\ last.fn = "access"
  /\ \E q \in Resident(last.pre_table) :
       /\ q < last.victim
       /\ last.pre_table[q].arrival_timestamp
            > last.pre_table[last.victim].arrival_timestamp

\* C4: LRU evicts a page that was resident and whose last_access_timestamp is
\* at most that of every page resident before the eviction.
C4_LruVictimOldestAccess ==
  Evicted("lru") =>
    /\ last.victim \in Resident(last.pre_table)
    /\ last.victim \notin Resident(AccessTable)
    /\ \A q \in Resident(last.pre_table) :
         last.pre_table[last.victim].last_access_timestamp
           <= last.pre_table[q].last_access_timestamp

C4_Witness ==
  /\ Evicted("lru")
  /\ last.fn = "count"
  /\ \E q \in Resident(last.pre_table) :
       /\ last.pre_table[q].arrival_timestamp
            < last.pre_table[last.victim].arrival_timestamp
       /\ last.pre_table[q].last_access_timestamp
            > last.pre_table[last.victim].last_access_timestamp

\* The victim of the first eviction of count_page_faults_lfu on an empty table
\* of 5 entries with 3 free frames and the references 1,2,2,3,4.
ScenarioC_Victim ==
  count_loop("lfu", EmptyTableOf(5), 5, <<1, 2, 2, 3, 4>>, 5, InitialPool(3)).victim

\* C5: LFU evicts a page with the smallest reference_count among the pages
\* resident before the eviction and, among those with that reference_count,
\* with the smallest arrival_timestamp; with 3 frames and the references
\* 1,2,2,3,4 the first eviction evicts page 1.
C5_LfuVictimLeastUsedThenOldest ==
  /\ Evicted("lfu") =>
       /\ last.victim \in Resident(last.pre_table)
       /\ last.victim \notin Resident(AccessTable)
       /\ \A q \in Resident(last.pre_table) :
            \/ last.pre_table[last.victim].reference_count
                 < last.pre_table[q].reference_count
            \/ /\ last.pre_table[last.victim].reference_count
                    = last.pre_table[q].reference_count
               /\ last.pre_table[last.victim].arrival_timestamp
                    <= last.pre_table[q].arrival_timestamp
  /\ ScenarioC_Victim = 1

C5_Witness ==
  /\ Evicted("lfu")
  /\ \E q \in Resident(last.pre_table) :
       /\ q < last.victim
       /\ last.pre_table[q].reference_count
            > last.pre_table[last.victim].reference_count
       /\ last.pre_table[q].arrival_timestamp
            < last.pre_table[last.victim].arrival_timestamp

\* The spec's total order of victim selection: e comes strictly before f.
\* FIFO: arrival_timestamp, then frame_number.  LRU: last_access_timestamp,
\* then arrival_timestamp, then frame_number.  LFU: reference_count, then
\* arrival_timestamp, then frame_number.
VictimKey(policy, e) ==
  CASE policy = "fifo" -> <<e.arrival_timestamp, e.arrival_timestamp, e.frame_number>>
    [] policy = "lru"  -> <<e.last_access_timestamp, e.arrival_timestamp, e.frame_number>>
    [] policy = "lfu"  -> <<e.reference_count, e.arrival_timestamp, e.frame_number>>

KeyBefore(a, b) ==
  \/ a[1] < b[1]
  \/ a[1] = b[1] /\ a[2] < b[2]
  \/ a[1] = b[1] /\ a[2] = b[2] /\ a[3] < b[3]

\* C6: the victim is the first resident page in the spec's total tie-break
\* order, whatever its position in the table.
C6_VictimBySpecOrder ==
  (Accessed /\ last.kind = "evict") =>
    \A q \in Resident(last.pre_table) \ {last.victim} :
      KeyBefore(VictimKey(last.policy, last.pre_table[last.victim]),
                VictimKey(last.policy, last.pre_table[q]))

\* C7: a hit leaves the page's arrival_timestamp, frame_number and residency,
\* every other entry, and the free pool and its count as they were.
C7_HitFrame ==
  (Accessed /\ last.kind = "hit") =>
    /\ last.page \in Resident(last.pre_table)
    /\ AccessTable[last.page].is_valid = last.pre_table[last.page].is_valid
    /\ AccessTable[last.page].frame_number
         = last.pre_table[last.page].frame_number
    /\ AccessTable[last.page].arrival_timestamp
         = last.pre_table[last.page].arrival_timestamp
    /\ \A q \in Pages \ {last.page} : AccessTable[q] = last.pre_table[q]
    /\ AccessPool = last.pre_pool
    /\ Len(AccessPool) = Len(last.pre_pool)

C7_Witness ==
  /\ Accessed
  /\ last.kind = "hit"
  /\ last.ts # last.pre_table[last.page].arrival_timestamp
  /\ Cardinality(Resident(last.pre_table)) >= 2

\* C8 as stated: every LRU hit leaves last_access_timestamp strictly greater
\* than before, in process_page_access_lru and in count_page_faults_lru.
C8_LruHitStrictlyLater ==
  (Accessed /\ last.kind = "hit" /\ last.policy = "lru") =>
    AccessTable[last.page].last_access_timestamp
      > last.pre_table[last.page].last_access_timestamp

\* C8 amended: an LRU hit sets last_access_timestamp to the current_timestamp
\* of the access; the new value is strictly greater than the old one inside
\* count_page_faults_lru run on an empty table.
C8_LruHitSetsTimestamp ==
  (Accessed /\ last.kind = "hit" /\ last.policy = "lru") =>
    /\ AccessTable[last.page].last_access_timestamp = last.ts
    /\ last.fn = "count" =>
         AccessTable[last.page].last_access_timestamp
           > last.pre_table[last.page].last_access_timestamp

C8_Witness ==
  /\ last.fn = "count"
  /\ last.kind = "hit"
  /\ last.policy = "lru"
  /\ last.pre_table[last.page].last_access_timestamp + 1 < last.ts

\* C9: a page loaded on a fault is valid, has arrival_timestamp and
\* last_access_timestamp equal to the clock of the access and reference_count
\* 1; loaded by an eviction, its frame_number is the frame the victim held.
C9_LoadedEntry ==
  (Accessed /\ last.kind \in {"fill", "evict"}) =>
    /\ AccessTable[last.page].is_valid = 1
    /\ AccessTable[last.page].arrival_timestamp = last.ts
    /\ AccessTable[last.page].last_access_timestamp = last.ts
    /\ AccessTable[last.page].reference_count = 1
    /\ last.kind = "evict" =>
         /\ AccessTable[last.page].frame_number
              = last.pre_table[last.victim].frame_number
         /\ last.pre_table[last.victim].frame_number >= 0

C9_Witness ==
  /\ Accessed
  /\ last.kind = "evict"
  /\ last.pre_table[last.victim].frame_number = 1
  /\ last.pre_table[last.victim].reference_count > 1

\* C10: the fault counter of count_page_faults_* equals the number of
\* references found not resident when accessed, so the value returned is that
\* number, at most reference_cnt, and 0 for an empty sequence.
C10_FaultsAreMisses ==
  /\ running # "none" => (faults = misses /\ faults <= i)
  /\ last.fn = "return" =>
       /\ last.ret = last.misses
       /\ last.ret <= last.reference_cnt
       /\ last.reference_cnt = 0 => last.ret = 0

C10_Witness ==
  /\ last.fn = "return"
  /\ last.reference_cnt >= 3
  /\ 0 < last.ret
  /\ last.ret < last.reference_cnt

\* C12: with a frame capacity of 0 and no page resident, count_page_faults_*
\* counts no reference as a fault and process_page_access_* leaves the table
\* as it was.
C12_NoCapacityNoFault ==
  capacity = 0 =>
    /\ faults = 0
    /\ last.fn = "return" => last.ret = 0
    /\ page_table = EmptyTable

\* C17 as stated: whatever current_timestamp the caller passes, every resident
\* page has arrival_timestamp <= last_access_timestamp.
C17_ArrivalNotAfterAccess ==
  /\ \A p \in Resident(page_table) :
       page_table[p].arrival_timestamp <= page_table[p].last_access_timestamp
  /\ running # "none" =>
       \A p \in Resident(local_page_table) :
         local_page_table[p].arrival_timestamp
           <= local_page_table[p].last_access_timestamp

\* C17 amended: every resident page has arrival_timestamp <=
\* last_access_timestamp inside count_page_faults_* run on an empty table, and
\* in the caller's table as long as no process_page_access_* call passed a
\* current_timestamp smaller than the call before it.
C17_ArrivalNotAfterAccessInOrder ==
  /\ last.in_order =>
       \A p \in Resident(page_table) :
         page_table[p].arrival_timestamp <= page_table[p].last_access_timestamp
  /\ running # "none" =>
       \A p \in Resident(local_page_table) :
         local_page_table[p].arrival_timestamp
           <= local_page_table[p].last_access_timestamp

C17_Witness ==
  /\ last.fn = "access"
  /\ last.in_order
  /\ last.kind = "hit"
  /\ page_table[last.page].arrival_timestamp
       < page_table[last.page].last_access_timestamp
  /\ Cardinality(Resident(page_table)) >= 2

\* C18: under every policy a load sets reference_count to 1, a hit adds 1 to
\* it and an access changes no other resident page's count, so the count of
\* a resident page is the number of accesses since its load; it is never the
\* -1 of an evicted entry, and the victim of an eviction is a valid entry with
\* a count of at least 1.
C18_ReferenceCountCountsAccesses ==
  /\ \A p \in Resident(page_table) : page_table[p].reference_count >= 1
  /\ running # "none" =>
       \A p \in Resident(local_page_table) :
         local_page_table[p].reference_count >= 1
  /\ Accessed =>
       /\ last.kind = "hit" =>
            AccessTable[last.page].reference_count
              = last.pre_table[last.page].reference_count + 1
       /\ last.kind \in {"fill", "evict"} =>
            AccessTable[last.page].reference_count = 1
       /\ last.kind = "evict" =>
            /\ last.victim \in Resident(last.pre_table)
            /\ last.pre_table[last.victim].reference_count >= 1
       /\ \A q \in Resident(AccessTable) \ {last.page} :
            AccessTable[q].reference_count
              = last.pre_table[q].reference_count

C18_Witness ==
  /\ Accessed
  /\ last.kind = "hit"
  /\ last.policy = "fifo"
  /\ AccessTable[last.page].reference_count = 3

\* C13: an access to a page number outside [0, table_cnt) leaves the page
\* table and the free pool as they were, and no such page is ever resident.
C13_OutOfRangeRejected ==
  /\ (last.fn = "access" /\ last.page \notin Pages) =>
       /\ page_table = last.pre_table
       /\ frame_pool = last.pre_pool
  /\ \A p \in Resident(page_table) : p \in Pages

\* C19: from an empty table with at least one frame, every
\* process_page_access_* call on a page of the table returns a frame number
\* other than -1, leaves the page resident and returns its frame_number.
C19_NeverMinusOne ==
  (last.fn = "access" /\ capacity >= 1) =>
    /\ last.ret # -1
    /\ last.page \in Resident(page_table)
    /\ last.ret = page_table[last.page].frame_number

\* ------------------------------------------------------------------ whole runs: claims
\* The caller's inputs are those of scenarios A and B, or of scenario D.
InScenarioA ==
  /\ page_table = EmptyTableOf(6)
  /\ frame_pool = InitialPool(3)
  /\ reference_string = ScenarioRefs

InScenarioD ==
  /\ page_table = EmptyTableOf(8)
  /\ frame_pool = InitialPool(1)
  /\ reference_string = ScenarioD_Refs

\* The positions of a run that were not hits.
FaultPositions(run) == {k \in DOMAIN run.outcomes : run.outcomes[k] # "hit"}

\* C11: a count_page_faults_* call leaves the caller's page_table, frame_pool
\* and frame_cnt as they were, so whatever the order of the calls on the same
\* inputs, and when a policy is called again, each policy returns the fault
\* count of its first call.
C11_RunsIsolated ==
  \A p \in Policies :
    counted[p].done =>
      /\ page_table = counted[p].pre_table
      /\ frame_pool = counted[p].pre_pool
      /\ frame_cnt = Len(counted[p].pre_pool)
      /\ counted[p].ret = counted[p].first

C11_Witness ==
  /\ \A p \in Policies : counted[p].done
  /\ counted["lru"].again
  /\ Resident(page_table) # {}
  /\ counted["fifo"].ret > 0
  /\ counted["fifo"].local_page_table # counted["lfu"].local_page_table
  /\ counted["lru"].local_page_table # page_table

\* C14 as stated: count_page_faults_fifo on scenario A returns 9.
C14_ScenarioA_NineFaults ==
  (InScenarioA /\ counted["fifo"].done) => counted["fifo"].ret = 9

\* C14: count_page_faults_fifo on an empty table, 3 free frames and the
\* references [1,2,3,4,1,2,5,1,2,3] returns 8 faults: the references 1 and 2
\* at positions 8 and 9 are hits.
C14_ScenarioA_EightFaults ==
  (InScenarioA /\ counted["fifo"].done) =>
    /\ counted["fifo"].ret = 8
    /\ FaultPositions(counted["fifo"]) = {1, 2, 3, 4, 5, 6, 7, 10}

C14_Witness == InScenarioA /\ counted["fifo"].done /\ counted["fifo"].ret > 0

\* C15 as stated: count_page_faults_lru on scenario B returns 10.
C15_ScenarioB_TenFaults ==
  (InScenarioA /\ counted["lru"].done) => counted["lru"].ret = 10

\* C15: count_page_faults_lru on an empty table, 3 free frames and the
\* references [1,2,3,4,1,2,5,1,2,3] returns 8 faults: the references 1 and 2
\* at positions 8 and 9 are hits.
C15_ScenarioB_EightFaults ==
  (InScenarioA /\ counted["lru"].done) =>
    /\ counted["lru"].ret = 8
    /\ FaultPositions(counted["lru"]) = {1, 2, 3, 4, 5, 6, 7, 10}

C15_Witness == InScenarioA /\ counted["lru"].done /\ counted["lru"].ret > 0

\* C16: from an empty table with one free frame, a reference is a hit under
\* each policy exactly when it equals the reference before it, the value
\* returned is the number of references that are not hits, and the policies
\* that have run agree on both; [7,7,7] gives 1 fault and 2 hits.
C16_SingleFramePolicyInvariant ==
  /\ (Resident(page_table) = {} /\ frame_cnt = 1) =>
       \A p \in Policies :
         counted[p].done =>
           /\ \A k \in 1 .. reference_cnt :
                (counted[p].outcomes[k] = "hit") <=>
                  (k > 1 /\ reference_string[k] = reference_string[k - 1])
           /\ counted[p].ret = Cardinality(FaultPositions(counted[p]))
           /\ \A q \in Policies :
                counted[q].done =>
                  /\ counted[q].ret = counted[p].ret
                  /\ FaultPositions(counted[q]) = FaultPositions(counted[p])
  /\ InScenarioD =>
       \A p \in Policies :
         counted[p].done =>
           /\ counted[p].ret = 1
           /\ FaultPositions(counted[p]) = {1}
           /\ reference_cnt - Cardinality(FaultPositions(counted[p])) = 2

C16_Witness ==
  /\ Resident(page_table) = {}
  /\ frame_cnt = 1
  /\ \A p \in Policies : counted[p].done
  /\ reference_cnt = MaxRunRefs
  /\ \E k \in 1 .. reference_cnt : counted["lfu"].outcomes[k] = "hit"
  /\ \E k \in 1 .. reference_cnt : counted["lfu"].outcomes[k] = "evict"

\* C20: the replay of the reference string through process_page_access_X with
\* current_timestamp = 1, 2, ..., n finds the page not resident as many times
\* as count_page_faults_X returns on the same inputs, and ends with the page
\* table and the pool that count_page_faults_X ends with in its copies.
C20_CountAgreesWithReplay ==
  replayed.done =>
    LET c == count_page_faults(replayed.policy, page_table, table_cnt,
                               reference_string, reference_cnt, frame_pool)
    IN  /\ c.ret = replayed.ret
        /\ c.local_page_table = replayed.local_page_table
        /\ c.local_frame_pool = replayed.local_frame_pool

C20_Witness ==
  /\ replayed.done
  /\ replayed.policy = "lfu"
  /\ Resident(page_table) # {}
  /\ replayed.ret >= 2
  /\ Resident(replayed.local_page_table) \cap Resident(page_table) = {}
====
